---- MODULE Spec2Model ----
(***************************************************************************)
(* Model of the repository graph build of rag-foundry-coderag:             *)
(*   PythonASTExtractor  (core/extractors/python_extractor.py)             *)
(*   RepoGraph           (core/codebase/repo_graph.py)                     *)
(*   RepoGraphBuilder    (core/codebase/repo_graph_builder.py)             *)
(* Strings are sequences of one-character strings, so that startswith,     *)
(* replace and rstrip are computed character by character.  Confidence     *)
(* values are kept in tenths (1.0 = 10, 0.5 = 5, 0.0 = 0).                 *)
(***************************************************************************)
EXTENDS Integers, Sequences, FiniteSets, TLC

VARIABLES
    repo,          \* the files on disk: relative path -> source (or a marker)
    pc,            \* position of build(): extract, defines, resolve, done, aborted
    walked,        \* the paths _walk_repo has yielded so far, in order
    entities,      \* RepoGraph.entities, as the ordered list of its values
    files,         \* RepoGraph.files: relative path -> list of ids
    symbol_table,  \* the table built by build_symbol_table: name -> id
    builds,        \* number of build() calls started over this repository
    prev,          \* the entities the previous completed build returned, by id
    log,           \* the add_entity calls made on the graph, in order
    base,          \* the entities as extraction left them, before any pass
    passes,        \* the derivation passes run on the graph, in order
    jobs,          \* the ingestion jobs: status row, worker position, resources
    db             \* persisted storage: document nodes and relationships

vars == <<repo, pc, walked, entities, files, symbol_table, builds, prev,
          log, base, passes, jobs, db>>

\* what build() does not touch
storeVars == <<log, base, passes>>
serviceVars == <<jobs, db>>

IdleStore == log = <<>> /\ base = <<>> /\ passes = <<>>
IdleBuild == repo = <<>> /\ walked = <<>> /\ builds = 0 /\ prev = {}
IdleGraph == entities = <<>> /\ files = <<>> /\ symbol_table = <<>>
IdleJobs == jobs = <<>>
NoCall == [op |-> "none", repo_id |-> "", batch |-> <<>>]
IdlePersist == db = [nodes |-> <<>>, rels |-> <<>>, calls |-> 0, last |-> NoCall]

----------------------------------------------------------------------------
(* Bounds *)

MaxFiles == 3      \* number of visible *.py files of the repository
MaxBuilds == 2     \* number of build() calls over the same files

----------------------------------------------------------------------------
(* Values *)

None == <<"None">>
EXTERNAL == <<"E", "X", "T", "E", "R", "N", "A", "L">>
UNKNOWN == <<"<", "u", "n", "k", "n", "o", "w", "n", ">">>

CONF_SCOPED == 10
CONF_GLOBAL == 5
CONF_NONE == 0
CONF_UNUSED == 8

SEP == <<"#">>
IMPORT_PREFIX == <<"#", "i", "m", "p", "o", "r", "t", ":">>
CALL_PREFIX == <<"#", "c", "a", "l", "l", ":">>

Falsy(x) == x = None \/ x = <<>>

Get(d, k) == IF k \in DOMAIN d THEN d[k] ELSE None

StartsWith(s, p) == Len(p) <= Len(s) /\ SubSeq(s, 1, Len(p)) = p

Replace(s, old, new) == [i \in 1..Len(s) |-> IF s[i] = old THEN new ELSE s[i]]

RECURSIVE RStrip(_, _)
RStrip(s, chars) ==
    IF s # <<>> /\ s[Len(s)] \in chars
    THEN RStrip(SubSeq(s, 1, Len(s) - 1), chars)
    ELSE s

RECURSIVE SplitParts(_, _)
SplitParts(s, cur) ==
    IF s = <<>> THEN <<cur>>
    ELSE IF Head(s) = "/" THEN <<cur>> \o SplitParts(Tail(s), <<>>)
    ELSE SplitParts(Tail(s), Append(cur, Head(s)))

----------------------------------------------------------------------------
(* Syntax trees: what ast.parse returns, reduced to the node types the     *)
(* visitor distinguishes.  body lists the child nodes in the order         *)
(* generic_visit reaches them; ancestors are the parent links that         *)
(* annotate_parents sets.                                                  *)

Node(t, n, q, ns, r, b) ==
    [type |-> t, name |-> n, qual |-> q, names |-> ns, renders |-> r, body |-> b]

Module(b) == Node("Module", <<>>, <<>>, <<>>, TRUE, b)
ClassDef(n, b) == Node("ClassDef", n, <<>>, <<>>, TRUE, b)
FunctionDef(n, b) == Node("FunctionDef", n, <<>>, <<>>, TRUE, b)
AsyncFunctionDef(n, b) == Node("AsyncFunctionDef", n, <<>>, <<>>, TRUE, b)
Import(ns) == Node("Import", <<>>, <<>>, ns, TRUE, <<>>)
ImportFrom(m, ns) == Node("ImportFrom", <<>>, m, ns, TRUE, <<>>)
CallName(n, b) == Node("Call", n, <<>>, <<>>, TRUE, b)
CallAttribute(v, a, b) == Node("Call", a, v, <<>>, TRUE, b)
CallUnrenderable(b) == Node("Call", <<>>, <<>>, <<>>, FALSE, b)

----------------------------------------------------------------------------
(* PythonASTExtractor *)

Artifact(t, id, n) == [artifact_type |-> t, id |-> id, name |-> n]

module_name(relative_path) ==
    RStrip(Replace(relative_path, "/", "."), {".", "p", "y"})

_get_parent_class(ancestors) ==
    IF \E i \in 1..Len(ancestors) : ancestors[i].type = "ClassDef"
    THEN LET i == CHOOSE k \in 1..Len(ancestors) :
                      /\ ancestors[k].type = "ClassDef"
                      /\ \A j \in 1..(k - 1) : ancestors[j].type # "ClassDef"
         IN  ancestors[i].name
    ELSE None

func_name(node) ==
    IF ~node.renders THEN UNKNOWN
    ELSE IF node.qual # <<>> THEN node.qual \o <<".">> \o node.name
    ELSE node.name

RECURSIVE visit(_, _, _), generic_visit(_, _, _)

visit_ClassDef(relative_path, node, ancestors) ==
    <<Artifact("CLASS", relative_path \o SEP \o node.name, node.name)>>
        \o generic_visit(relative_path, node, ancestors)

visit_FunctionDef(relative_path, node, ancestors) ==
    LET parent_class == _get_parent_class(ancestors)
        canonical_id ==
            IF ~Falsy(parent_class)
            THEN relative_path \o SEP \o parent_class \o <<".">> \o node.name
            ELSE relative_path \o SEP \o node.name
        artifact_type == IF ~Falsy(parent_class) THEN "METHOD" ELSE "FUNCTION"
    IN  <<Artifact(artifact_type, canonical_id, node.name)>>
            \o generic_visit(relative_path, node, ancestors)

visit_Import(relative_path, node) ==
    [i \in 1..Len(node.names) |->
        Artifact("IMPORT",
                 relative_path \o IMPORT_PREFIX \o node.names[i],
                 node.names[i])]

visit_ImportFrom(relative_path, node) ==
    [i \in 1..Len(node.names) |->
        Artifact("IMPORT",
                 relative_path \o IMPORT_PREFIX \o node.qual \o <<".">>
                     \o node.names[i],
                 node.names[i])]

visit_Call(relative_path, node, ancestors) ==
    <<Artifact("CALL", relative_path \o CALL_PREFIX \o func_name(node),
               func_name(node))>>
        \o generic_visit(relative_path, node, ancestors)

RECURSIVE visit_children(_, _, _)
visit_children(relative_path, children, ancestors) ==
    IF children = <<>> THEN <<>>
    ELSE visit(relative_path, Head(children), ancestors)
             \o visit_children(relative_path, Tail(children), ancestors)

generic_visit(relative_path, node, ancestors) ==
    visit_children(relative_path, node.body,
                   <<[type |-> node.type, name |-> node.name]>> \o ancestors)

visit(relative_path, node, ancestors) ==
    CASE node.type = "ClassDef" -> visit_ClassDef(relative_path, node, ancestors)
      [] node.type = "FunctionDef" -> visit_FunctionDef(relative_path, node, ancestors)
      [] node.type = "Import" -> visit_Import(relative_path, node)
      [] node.type = "ImportFrom" -> visit_ImportFrom(relative_path, node)
      [] node.type = "Call" -> visit_Call(relative_path, node, ancestors)
      [] OTHER -> generic_visit(relative_path, node, ancestors)

extract(relative_path, tree) ==
    <<Artifact("MODULE", relative_path, module_name(relative_path))>>
        \o visit(relative_path, tree, <<>>)

----------------------------------------------------------------------------
(* RepoGraph: a graph is [entities, files]; entities is the list of the    *)
(* dict's values in key-insertion order.                                   *)

EmptyGraph == [entities |-> <<>>, files |-> <<>>]

entity_index(ents, canonical_id) ==
    IF \E i \in 1..Len(ents) : ents[i].id = canonical_id
    THEN CHOOSE i \in 1..Len(ents) : ents[i].id = canonical_id
    ELSE 0

\* the id is listed only the first time it is added under a path
add_entity_ListOnce(graph, relative_path, entity) ==
    LET i == entity_index(graph.entities, entity.id)
    IN  [entities |-> IF i = 0 THEN Append(graph.entities, entity)
                      ELSE [graph.entities EXCEPT ![i] = entity],
         files |-> IF relative_path \in DOMAIN graph.files
                   THEN IF \E k \in 1..Len(graph.files[relative_path]) :
                               graph.files[relative_path][k] = entity.id
                        THEN graph.files
                        ELSE [graph.files EXCEPT
                                 ![relative_path] = Append(@, entity.id)]
                   ELSE (relative_path :> <<entity.id>>) @@ graph.files]

\* an id added again is taken out and put at the end
add_entity_Reinsert(graph, relative_path, entity) ==
    [entities |-> Append(SelectSeq(graph.entities, LAMBDA e : e.id # entity.id), entity),
     files |-> IF relative_path \in DOMAIN graph.files
               THEN [graph.files EXCEPT ![relative_path] = Append(@, entity.id)]
               ELSE (relative_path :> <<entity.id>>) @@ graph.files]

add_entity(graph, relative_path, entity) ==
    LET i == entity_index(graph.entities, entity.id)
    IN  [entities |-> IF i = 0 THEN Append(graph.entities, entity)
                      ELSE [graph.entities EXCEPT ![i] = entity],
         files |-> IF relative_path \in DOMAIN graph.files
                   THEN [graph.files EXCEPT ![relative_path] = Append(@, entity.id)]
                   ELSE (relative_path :> <<entity.id>>) @@ graph.files]

all_entities(graph) == graph.entities

----------------------------------------------------------------------------
(* symbol_table.build_symbol_table / SymbolTable.lookup *)

SYMBOL_KINDS == {"MODULE", "CLASS", "FUNCTION", "METHOD"}

RECURSIVE build_symbol_table(_, _)
build_symbol_table(ents, table) ==
    IF ents = <<>> THEN table
    ELSE LET e == Head(ents)
         IN  build_symbol_table(Tail(ents),
                 IF e.artifact_type \in SYMBOL_KINDS
                 THEN (e.name :> e.id) @@ table
                 ELSE table)

lookup(table, name) == IF name \in DOMAIN table THEN table[name] ELSE None

----------------------------------------------------------------------------
(* RepoGraphBuilder *)

DEFINITION_TYPES == {"CLASS", "FUNCTION", "METHOD"}

_walk_repo(paths) ==
    {p \in paths :
        ~\E i \in 1..Len(SplitParts(p, <<>>)) :
            StartsWith(SplitParts(p, <<>>)[i], <<".">>)}

RECURSIVE add_artifacts(_, _, _)
add_artifacts(graph, relative_path, artifacts) ==
    IF artifacts = <<>> THEN graph
    ELSE add_artifacts(
             add_entity(graph, relative_path,
                        ("defines" :> <<>>) @@ Head(artifacts)),
             relative_path, Tail(artifacts))

\* the kind of the child is not looked at
attach_entity_AnyKind(entity, ents) ==
    LET child_id == Get(entity, "id")
        parent_id == Get(entity, "parent_id")
        p == entity_index(ents, parent_id)
    IN  IF Falsy(child_id) \/ Falsy(parent_id) THEN ents
        ELSE IF p = 0 THEN ents
        ELSE [ents EXCEPT ![p].defines = Append(@, child_id)]

attach_entity(entity, ents) ==
    LET child_id == Get(entity, "id")
        parent_id == Get(entity, "parent_id")
        p == entity_index(ents, parent_id)
    IN  IF entity.artifact_type \notin DEFINITION_TYPES THEN ents
        ELSE IF Falsy(child_id) \/ Falsy(parent_id) THEN ents
        ELSE IF p = 0 THEN ents
        ELSE [ents EXCEPT ![p].defines = Append(@, child_id)]

RECURSIVE attach_loop(_, _, _)
attach_loop(snapshot, i, ents) ==
    IF i > Len(snapshot) THEN ents
    ELSE attach_loop(snapshot, i + 1, attach_entity(snapshot[i], ents))

_attach_defines(graph) ==
    [graph EXCEPT !.entities = attach_loop(all_entities(graph), 1, graph.entities)]

\* a scope holds what its defines list names, not what its id prefixes
scope_match_ByDefines(ents, current_parent, name) ==
    {i \in 1..Len(ents) :
        /\ entity_index(ents, current_parent) # 0
        /\ \E k \in 1..Len(ents[entity_index(ents, current_parent)].defines) :
               ents[entity_index(ents, current_parent)].defines[k] = ents[i].id
        /\ Get(ents[i], "name") = name
        /\ ents[i].artifact_type \in {"CLASS", "FUNCTION", "METHOD"}}

scope_match(ents, current_parent, name) ==
    {i \in 1..Len(ents) :
        /\ StartsWith(ents[i].id, current_parent)
        /\ Get(ents[i], "name") = name
        /\ ents[i].artifact_type \in {"CLASS", "FUNCTION", "METHOD"}}

Min(S) == CHOOSE x \in S : \A y \in S : x <= y

RECURSIVE scope_walk(_, _, _, _)
scope_walk(ents, name, current_parent, seen) ==
    IF Falsy(current_parent)
        THEN [resolution |-> None, confidence |-> CONF_NONE, loops |-> FALSE]
    ELSE IF scope_match(ents, current_parent, name) # {}
        THEN [resolution |-> ents[Min(scope_match(ents, current_parent, name))].id,
              confidence |-> CONF_SCOPED, loops |-> FALSE]
    ELSE IF current_parent \in seen
        THEN [resolution |-> None, confidence |-> CONF_NONE, loops |-> TRUE]
    ELSE LET p == entity_index(ents, current_parent)
         IN  scope_walk(ents, name,
                        IF p # 0 THEN Get(ents[p], "parent_id") ELSE None,
                        seen \cup {current_parent})

_resolve_in_scope(call, ents) ==
    scope_walk(ents, Get(call, "name"), Get(call, "parent_id"), {})

SetResolution(call, resolution, confidence) ==
    ("resolution" :> resolution) @@ ("confidence" :> confidence) @@ call

\* the global tier answers with the unused 0.8 of the module docstring
resolve_call_Tier08(call, ents, table) ==
    LET name == Get(call, "name")
        scoped == _resolve_in_scope(call, ents)
        global_res == lookup(table, name)
    IN  IF Falsy(name) THEN SetResolution(call, EXTERNAL, CONF_NONE)
        ELSE IF ~Falsy(scoped.resolution)
            THEN SetResolution(call, scoped.resolution, scoped.confidence)
        ELSE IF ~Falsy(global_res)
            THEN SetResolution(call, global_res, CONF_UNUSED)
        ELSE SetResolution(call, EXTERNAL, CONF_NONE)

\* the unresolved branch keeps the confidence of the global tier
resolve_call_ExternalHalf(call, ents, table) ==
    LET name == Get(call, "name")
        scoped == _resolve_in_scope(call, ents)
        global_res == lookup(table, name)
    IN  IF Falsy(name) THEN SetResolution(call, EXTERNAL, CONF_NONE)
        ELSE IF ~Falsy(scoped.resolution)
            THEN SetResolution(call, scoped.resolution, scoped.confidence)
        ELSE IF ~Falsy(global_res)
            THEN SetResolution(call, global_res, CONF_GLOBAL)
        ELSE SetResolution(call, EXTERNAL, CONF_GLOBAL)

\* the global fallback is skipped: what the scopes miss is EXTERNAL
resolve_call_NoFallback(call, ents, table) ==
    LET name == Get(call, "name")
        scoped == _resolve_in_scope(call, ents)
    IN  IF Falsy(name) THEN SetResolution(call, EXTERNAL, CONF_NONE)
        ELSE IF ~Falsy(scoped.resolution)
            THEN SetResolution(call, scoped.resolution, scoped.confidence)
        ELSE SetResolution(call, EXTERNAL, CONF_NONE)

\* the name is not tested before the searches
resolve_call_NoEmptyCheck(call, ents, table) ==
    LET name == Get(call, "name")
        scoped == _resolve_in_scope(call, ents)
        global_res == lookup(table, name)
    IN  IF ~Falsy(scoped.resolution)
            THEN SetResolution(call, scoped.resolution, scoped.confidence)
        ELSE IF ~Falsy(global_res)
            THEN SetResolution(call, global_res, CONF_GLOBAL)
        ELSE SetResolution(call, EXTERNAL, CONF_NONE)

resolve_call(call, ents, table) ==
    LET name == Get(call, "name")
        scoped == _resolve_in_scope(call, ents)
        global_res == lookup(table, name)
    IN  IF Falsy(name) THEN SetResolution(call, EXTERNAL, CONF_NONE)
        ELSE IF ~Falsy(scoped.resolution)
            THEN SetResolution(call, scoped.resolution, scoped.confidence)
        ELSE IF ~Falsy(global_res)
            THEN SetResolution(call, global_res, CONF_GLOBAL)
        ELSE SetResolution(call, EXTERNAL, CONF_NONE)

\* every entity is taken for a call
_calls_AllEntities(ents) == 1..Len(ents)

_calls(ents) == {i \in 1..Len(ents) : ents[i].artifact_type = "CALL"}

_resolve_calls(graph, table) ==
    [graph EXCEPT !.entities =
        [i \in 1..Len(graph.entities) |->
            IF i \in _calls(graph.entities)
            THEN resolve_call(graph.entities[i], graph.entities, table)
            ELSE graph.entities[i]]]

----------------------------------------------------------------------------
(* The repository: the files a build can meet.                             *)

File(readable, parses, tree) ==
    [readable |-> readable, parses |-> parses, tree |-> tree]

\* def m(): pass
SrcDef == Module(<<FunctionDef(<<"m">>, <<>>)>>)

\* def m(): pass
\* def g():
\*     m()
\*     m()
SrcHelper ==
    Module(<<FunctionDef(<<"m">>, <<>>),
             FunctionDef(<<"g">>, <<CallName(<<"m">>, <<>>),
                                    CallName(<<"m">>, <<>>)>>)>>)

\* m()
\* h()
\* a()
SrcCalls ==
    Module(<<CallName(<<"m">>, <<>>),
             CallName(<<"h">>, <<>>),
             CallName(<<"a">>, <<>>)>>)

\* import os
\* from os import path
\* def m(): pass
\* class A:
\*     def m(self):
\*         def g():
\*             self.m(h())
\*     async def k(self):
\*         <a call whose callee cannot be rendered>
SrcClass ==
    Module(<<Import(<<<<"o", "s">>>>),
             ImportFrom(<<"o", "s">>, <<<<"p", "a", "t", "h">>>>),
             FunctionDef(<<"m">>, <<>>),
             ClassDef(<<"A">>,
                 <<FunctionDef(<<"m">>,
                       <<FunctionDef(<<"g">>,
                             <<CallAttribute(<<"s", "e", "l", "f">>, <<"m">>,
                                   <<CallName(<<"h">>, <<>>)>>)>>)>>),
                   AsyncFunctionDef(<<"k">>, <<CallUnrenderable(<<>>)>>)>>)>>)

FileChoices ==
    {File(FALSE, FALSE, Module(<<>>)),
     File(TRUE, FALSE, Module(<<>>)),
     File(TRUE, TRUE, SrcHelper),
     File(TRUE, TRUE, SrcCalls),
     File(TRUE, TRUE, SrcClass)}

PathList ==
    <<<<"a", ".", "p", "y">>,
      <<"b", ".", "p", "y">>,
      <<"d", "/", "y", ".", "p", "y">>,
      <<"c", ".", "p", "y">>,
      <<"e", ".", "p", "y">>>>

HiddenPath == <<".", "h", "/", "x", ".", "p", "y">>

VisiblePaths == {PathList[i] : i \in 1..MaxFiles}

----------------------------------------------------------------------------
(* build(), one step per file of the walk and one per derivation pass      *)

Range(s) == {s[i] : i \in 1..Len(s)}

Unvisited == _walk_repo(DOMAIN repo) \ Range(walked)

Graph == [entities |-> entities, files |-> files]

Init ==
    /\ \E f \in [VisiblePaths -> FileChoices] :
           repo = (HiddenPath :> File(TRUE, TRUE, SrcDef)) @@ f
    /\ pc = "extract"
    /\ walked = <<>>
    /\ entities = <<>>
    /\ files = <<>>
    /\ symbol_table = <<>>
    /\ builds = 1
    /\ prev = {}
    /\ IdleStore
    /\ IdleJobs
    /\ IdlePersist

\* read_text raises: the file is skipped
SkipUnreadable(p) ==
    /\ pc = "extract"
    /\ p \in Unvisited
    /\ ~repo[p].readable
    /\ walked' = Append(walked, p)
    /\ UNCHANGED <<repo, pc, entities, files, symbol_table, builds, prev>>
    /\ UNCHANGED <<storeVars, serviceVars>>

\* ast.parse raises inside extract(); build() has no handler around it
ExtractRaises(p) ==
    /\ pc = "extract"
    /\ p \in Unvisited
    /\ repo[p].readable
    /\ ~repo[p].parses
    /\ walked' = Append(walked, p)
    /\ pc' = "aborted"
    /\ UNCHANGED <<repo, entities, files, symbol_table, builds, prev>>
    /\ UNCHANGED <<storeVars, serviceVars>>

ExtractFile(p) ==
    /\ pc = "extract"
    /\ p \in Unvisited
    /\ repo[p].readable
    /\ repo[p].parses
    /\ LET g == add_artifacts(Graph, p, extract(p, repo[p].tree))
       IN  /\ entities' = g.entities
           /\ files' = g.files
    /\ walked' = Append(walked, p)
    /\ UNCHANGED <<repo, pc, symbol_table, builds, prev>>
    /\ UNCHANGED <<storeVars, serviceVars>>

BuildSymbolTable ==
    /\ pc = "extract"
    /\ Unvisited = {}
    /\ symbol_table' = build_symbol_table(all_entities(Graph), <<>>)
    /\ pc' = "defines"
    /\ UNCHANGED <<repo, walked, entities, files, builds, prev>>
    /\ UNCHANGED <<storeVars, serviceVars>>

AttachDefines ==
    /\ pc = "defines"
    /\ entities' = _attach_defines(Graph).entities
    /\ pc' = "resolve"
    /\ UNCHANGED <<repo, walked, files, symbol_table, builds, prev>>
    /\ UNCHANGED <<storeVars, serviceVars>>

ResolveCalls ==
    /\ pc = "resolve"
    /\ entities' = _resolve_calls(Graph, symbol_table).entities
    /\ pc' = "done"
    /\ UNCHANGED <<repo, walked, files, symbol_table, builds, prev>>
    /\ UNCHANGED <<storeVars, serviceVars>>

\* build() is called again over the same, unchanged files
Rebuild ==
    /\ pc = "done"
    /\ builds < MaxBuilds
    /\ prev' = Range(entities)
    /\ builds' = builds + 1
    /\ pc' = "extract"
    /\ walked' = <<>>
    /\ entities' = <<>>
    /\ files' = <<>>
    /\ symbol_table' = <<>>
    /\ UNCHANGED repo
    /\ UNCHANGED <<storeVars, serviceVars>>

Next ==
    \/ \E p \in DOMAIN repo : SkipUnreadable(p)
    \/ \E p \in DOMAIN repo : ExtractRaises(p)
    \/ \E p \in DOMAIN repo : ExtractFile(p)
    \/ BuildSymbolTable
    \/ AttachDefines
    \/ ResolveCalls
    \/ Rebuild

Spec == Init /\ [][Next]_vars

----------------------------------------------------------------------------
(* Properties of a finished build *)

Done == pc = "done"

Ents == Range(entities)

Calls == {e \in Ents : e.artifact_type = "CALL"}

\* the file an entity was added under
PathsOf(e) == {p \in DOMAIN files : e.id \in Range(files[p])}

\* the definitions of a name that the module scope of file p holds
ModuleScope(p, name) ==
    {e \in Ents : /\ e.artifact_type \in DEFINITION_TYPES
                  /\ e.name = name
                  /\ StartsWith(e.id, p)}

ScopedHit(c) == ~Falsy(_resolve_in_scope(c, entities).resolution)

GlobalHit(c) == ~Falsy(lookup(symbol_table, c.name))

\* an id cut before its last identity separator
TruncateAtLastSep(id) ==
    LET seps == {i \in 1..Len(id) : id[i] = "#"}
    IN  IF seps = {} THEN None
        ELSE SubSeq(id, 1, (CHOOSE i \in seps : \A j \in seps : j <= i) - 1)

C2_NearestScopeWins ==
    Done =>
        \A c \in Calls : \A p \in PathsOf(c) :
            (c.name # <<>> /\ ModuleScope(p, c.name) # {}) =>
                /\ c.confidence = CONF_SCOPED
                /\ c.resolution \in {e.id : e \in ModuleScope(p, c.name)}

\* C3: a resolution other than EXTERNAL is the id of an entity of the graph
\* whose kind is CLASS, FUNCTION or METHOD.
C3_ResolutionValidity ==
    Done =>
        \A c \in Calls :
            c.resolution # EXTERNAL =>
                \E e \in Ents : /\ e.id = c.resolution
                                /\ e.artifact_type \in DEFINITION_TYPES

\* C4: after build() every CALL has a parent_id, and it is the call's id
\* with the trailing identity segment (from the last # on) removed.
C4_ParentWellFormed ==
    Done =>
        \A c \in Calls :
            /\ Get(c, "parent_id") # None
            /\ Get(c, "parent_id") = TruncateAtLastSep(c.id)

\* the entities the symbol table records under a name, as positions
NamedSymbols(name) ==
    {i \in 1..Len(entities) : /\ entities[i].artifact_type \in SYMBOL_KINDS
                              /\ entities[i].name = name}

\* the top-level functions of that name, as positions
TopLevelFunctions(name) ==
    {i \in 1..Len(entities) :
        /\ entities[i].artifact_type = "FUNCTION"
        /\ entities[i].name = name
        /\ \E p \in DOMAIN files : entities[i].id = p \o SEP \o name}

Max(S) == CHOOSE x \in S : \A y \in S : y <= x

\* the case of the global fallback: no scope of the call matches, its own
\* file defines nothing of that name, two or more files define the function
FallbackCase(c) ==
    /\ c.name # <<>>
    /\ ~ScopedHit(c)
    /\ \A p \in PathsOf(c) : ModuleScope(p, c.name) = {}
    /\ Cardinality(TopLevelFunctions(c.name)) >= 2

\* C6 as stated: in the fallback case the call ends with confidence 0.5 and
\* the id of the top-level function of that name that was processed last.
C6_LastTopLevelFunctionWins ==
    Done =>
        \A c \in Calls :
            FallbackCase(c) =>
                /\ c.confidence = CONF_GLOBAL
                /\ c.resolution = entities[Max(TopLevelFunctions(c.name))].id

\* C6 amended: in the fallback case the call ends with confidence 0.5 and
\* the id of the last MODULE, CLASS, FUNCTION or METHOD artifact of that
\* name in entity order, whether or not it is one of the functions.
C6_LastSymbolWins ==
    Done =>
        \A c \in Calls :
            FallbackCase(c) =>
                /\ c.confidence = CONF_GLOBAL
                /\ c.resolution = entities[Max(NamedSymbols(c.name))].id

C6_Witness ==
    /\ Done
    /\ \E c \in Calls :
           /\ FallbackCase(c)
           /\ c.resolution = entities[Max(NamedSymbols(c.name))].id
           /\ Max(NamedSymbols(c.name)) \in TopLevelFunctions(c.name)

\* C7: a CALL whose non-empty name is the name of no MODULE, CLASS, FUNCTION
\* or METHOD artifact of the repository ends with EXTERNAL and 0.0.
C7_UnresolvedExternal ==
    Done =>
        \A c \in Calls :
            (c.name # <<>> /\ NamedSymbols(c.name) = {}) =>
                (c.resolution = EXTERNAL /\ c.confidence = CONF_NONE)

C7_Witness ==
    /\ Done
    /\ \E c \in Calls : /\ c.name # <<>>
                        /\ NamedSymbols(c.name) = {}
                        /\ c.resolution = EXTERNAL

\* C8: no two artifacts emitted by extraction share an id: every id is
\* listed once, in one file's list.
C8_UniqueIds ==
    /\ \A p \in DOMAIN files :
           \A i, j \in 1..Len(files[p]) : files[p][i] = files[p][j] => i = j
    /\ \A p, q \in DOMAIN files :
           p # q => Range(files[p]) \cap Range(files[q]) = {}

\* C9: a second build() over the same files returns the entities, with the
\* resolutions, confidences and defines lists, that the first returned.
C9_Determinism == (Done /\ builds > 1) => Ents = prev

\* C10: a file that does not parse does not abort the build: the build
\* finishes, with artifacts for exactly the files that were read and parsed.
C10_ParseFailureIsolated ==
    /\ pc # "aborted"
    /\ Done => \A p \in Range(walked) :
                   (repo[p].readable /\ repo[p].parses) <=> p \in DOMAIN files

----------------------------------------------------------------------------
(* The graph store and the derivation passes on their own: artifacts are   *)
(* handed to add_entity one call at a time, as the extraction loop of      *)
(* build() does, then the symbol table is built and the passes are run.    *)
(* The artifacts here may carry a parent_id, which the passes read.        *)

MaxAdds == 3       \* number of add_entity calls
MaxPasses == 3     \* number of pass runs over the finished snapshot

WithParent(artifact, parent_id) == ("parent_id" :> parent_id) @@ artifact

Unnamed(t, id) == [artifact_type |-> t, id |-> id]

PathA == PathList[1]
PathPy == <<"p", "y", ".", "p", "y">>

Added(relative_path, artifact) == [path |-> relative_path, artifact |-> artifact]

StorePool ==
    <<Added(PathA, Artifact("MODULE", PathA, module_name(PathA))),
      Added(PathA, WithParent(Artifact("FUNCTION", PathA \o SEP \o <<"f">>, <<"f">>),
                              PathA)),
      Added(PathA, WithParent(Artifact("CLASS", PathA \o SEP \o <<"A">>, <<"A">>),
                              PathA)),
      Added(PathA, WithParent(Artifact("METHOD", PathA \o SEP \o <<"A", ".", "f">>,
                                       <<"f">>),
                              PathA \o SEP \o <<"A">>)),
      Added(PathA, WithParent(Artifact("CALL", PathA \o CALL_PREFIX \o <<"f">>, <<"f">>),
                              PathA \o SEP \o <<"A", ".", "f">>)),
      Added(PathA, WithParent(Artifact("CALL", PathA \o CALL_PREFIX \o <<"f">>, <<"f">>),
                              PathA)),
      Added(PathPy, Artifact("MODULE", PathPy, module_name(PathPy))),
      Added(PathPy, WithParent(Artifact("CALL", PathPy \o CALL_PREFIX, <<>>), PathPy)),
      Added(PathPy, WithParent(Unnamed("CALL", PathPy \o CALL_PREFIX \o <<"?">>),
                               PathPy)),
      Added(PathA, WithParent(Artifact("METHOD", PathA \o SEP \o <<"A", "B", ".", "f">>,
                                       <<"f">>),
                              PathA \o SEP \o <<"A", "B">>)),
      Added(PathA, WithParent(Artifact("CALL", PathA \o CALL_PREFIX \o <<"f">>, <<"f">>),
                              PathA \o SEP \o <<"A">>))>>

InitStore ==
    /\ pc = "store"
    /\ IdleBuild
    /\ IdleGraph
    /\ IdleStore
    /\ IdleJobs
    /\ IdlePersist

StoreAdd(k) ==
    /\ pc = "store"
    /\ Len(log) < MaxAdds
    /\ LET g == add_artifacts(Graph, StorePool[k].path, <<StorePool[k].artifact>>)
       IN  /\ entities' = g.entities
           /\ files' = g.files
    /\ log' = Append(log, StorePool[k])
    /\ UNCHANGED <<repo, pc, walked, symbol_table, builds, prev, base, passes,
                   serviceVars>>

StoreSeal ==
    /\ pc = "store"
    /\ symbol_table' = build_symbol_table(all_entities(Graph), <<>>)
    /\ base' = entities
    /\ pc' = "passes"
    /\ UNCHANGED <<repo, walked, entities, files, builds, prev, log, passes,
                   serviceVars>>

StoreAttach ==
    /\ pc = "passes"
    /\ Len(passes) < MaxPasses
    /\ entities' = _attach_defines(Graph).entities
    /\ passes' = Append(passes, "attach")
    /\ UNCHANGED <<repo, pc, walked, files, symbol_table, builds, prev, log, base,
                   serviceVars>>

StoreResolve ==
    /\ pc = "passes"
    /\ Len(passes) < MaxPasses
    /\ entities' = _resolve_calls(Graph, symbol_table).entities
    /\ passes' = Append(passes, "resolve")
    /\ UNCHANGED <<repo, pc, walked, files, symbol_table, builds, prev, log, base,
                   serviceVars>>

NextStore ==
    \/ \E k \in 1..Len(StorePool) : StoreAdd(k)
    \/ StoreSeal
    \/ StoreAttach
    \/ StoreResolve

SpecStore == InitStore /\ [][NextStore]_vars

\* the artifact the graph holds after the k-th add_entity call of the log
Stored(k) == ("defines" :> <<>>) @@ log[k].artifact

LogIds == {log[k].artifact.id : k \in 1..Len(log)}

LastAdd(id) == Max({k \in 1..Len(log) : log[k].artifact.id = id})

IdsAddedUnder(relative_path) ==
    LET calls == SelectSeq(log, LAMBDA r : r.path = relative_path)
    IN  [k \in 1..Len(calls) |-> calls[k].artifact.id]

\* C11: after any sequence of add_entity calls get_entity(id) is the artifact
\* added last under that id, no id is lost, and files[path] lists one id per
\* call made with that path, in call order (an id added twice is listed twice).
C11_LastWriteWins ==
    pc = "store" =>
        /\ {e.id : e \in Ents} = LogIds
        /\ \A id \in LogIds :
               entities[entity_index(entities, id)] = Stored(LastAdd(id))
        /\ DOMAIN files = {log[k].path : k \in 1..Len(log)}
        /\ \A p \in DOMAIN files : files[p] = IdsAddedUnder(p)

C11_Witness ==
    /\ pc = "store"
    /\ \E j, k \in 1..Len(log) :
           /\ j < k
           /\ log[j].artifact.id = log[k].artifact.id
           /\ log[j].artifact # log[k].artifact
           /\ entities[entity_index(entities, log[k].artifact.id)] = Stored(k)
           /\ Len(files[log[k].path]) >= 2

----------------------------------------------------------------------------
(* The end of a build and the classification of declarations *)

\* build() has left its last step: it has returned or an exception left it
BuildStopped == pc \in {"done", "aborted"}

\* C12: build() over any finite repository runs to completion: extraction,
\* the symbol table, defines linking and call resolution all finish, so a
\* build that has stopped has reached its return.
C12_RunsToCompletion == BuildStopped => pc = "done"

\* the function declarations of a file, classified by the rule of the
\* specification: METHOD exactly when the direct parent is a class body
RECURSIVE DirectRule(_, _, _)
DirectRule(relative_path, nodes, parent) ==
    IF nodes = <<>> THEN {}
    ELSE LET n == Head(nodes)
             own ==
                 IF n.type # "FunctionDef" THEN {}
                 ELSE IF parent.type = "ClassDef"
                     THEN {[artifact_type |-> "METHOD",
                            id |-> relative_path \o SEP \o parent.name
                                       \o <<".">> \o n.name]}
                 ELSE {[artifact_type |-> "FUNCTION",
                        id |-> relative_path \o SEP \o n.name]}
         IN  own \cup DirectRule(relative_path, n.body, n)
                 \cup DirectRule(relative_path, Tail(nodes), parent)

FunctionsOf(relative_path) ==
    {[artifact_type |-> e.artifact_type, id |-> e.id] :
        e \in {x \in Ents : /\ x.artifact_type \in {"FUNCTION", "METHOD"}
                            /\ x.id \in Range(files[relative_path])}}

\* C19: a function declaration is emitted as METHOD, with id
\* relative_path#ClassName.MethodName, exactly when it stands directly in a
\* class body; every other one, also one nested in a method, is a FUNCTION.
C19_MethodIffDirectlyInClass ==
    Done =>
        \A p \in DOMAIN files :
            FunctionsOf(p) = DirectRule(p, repo[p].tree.body, repo[p].tree)

----------------------------------------------------------------------------
(* Properties of the passes over a sealed snapshot *)

Ran(pass) == \E k \in 1..Len(passes) : passes[k] = pass

BaseGraph == [entities |-> base, files |-> files]

\* C15: a CALL whose name is absent or empty gets EXTERNAL and 0.0 from the
\* resolver, whatever the graph and the symbol table hold.
C15_EmptyNameExternal ==
    (pc = "passes" /\ Ran("resolve")) =>
        \A c \in Calls :
            Falsy(Get(c, "name")) =>
                (c.resolution = EXTERNAL /\ c.confidence = CONF_NONE)

C15_Witness ==
    /\ pc = "passes"
    /\ Ran("resolve")
    /\ ~Falsy(lookup(symbol_table, <<>>))
    /\ \E c \in Calls : Get(c, "name") = <<>> /\ c.resolution = EXTERNAL
    /\ \E c \in Calls : Get(c, "name") = None /\ c.resolution = EXTERNAL

\* C16: over one snapshot the linker and the resolver commute: linking then
\* resolving, or resolving then linking, ends in the same graph.
C16_PassesCommute ==
    (pc = "passes" /\ passes \in {<<"attach", "resolve">>, <<"resolve", "attach">>}) =>
        /\ entities = _resolve_calls(_attach_defines(BaseGraph), symbol_table).entities
        /\ entities = _attach_defines(_resolve_calls(BaseGraph, symbol_table)).entities

C16_Witness ==
    /\ pc = "passes"
    /\ passes = <<"resolve", "attach">>
    /\ \E e \in Ents : e.defines # <<>>
    /\ \E c \in Calls : c.confidence = CONF_SCOPED

\* C17: the linker is idempotent: run again on a graph it has linked, it
\* leaves every defines list as it is.
C17_LinkerIdempotent ==
    [][(Ran("attach") /\ StoreAttach) => entities' = entities]_vars

\* the fields of an artifact other than its defines list
FrameKeys == {"artifact_type", "id", "name", "parent_id", "resolution", "confidence"}

KindOf(ents, id) == ents[entity_index(ents, id)].artifact_type

\* C20: the linker changes defines lists only, and only by appending ids of
\* CLASS, FUNCTION or METHOD artifacts: the ids, the files mapping and every
\* other field of every artifact are left as they were.
C20_LinkerFrame ==
    [][StoreAttach =>
          /\ files' = files
          /\ Len(entities') = Len(entities)
          /\ \A i \in 1..Len(entities) :
                 /\ DOMAIN entities'[i] = DOMAIN entities[i]
                 /\ \A k \in FrameKeys \cap DOMAIN entities[i] :
                        entities'[i][k] = entities[i][k]
                 /\ Len(entities'[i].defines) >= Len(entities[i].defines)
                 /\ \A k \in 1..Len(entities'[i].defines) :
                        IF k <= Len(entities[i].defines)
                        THEN entities'[i].defines[k] = entities[i].defines[k]
                        ELSE KindOf(entities, entities'[i].defines[k])
                                 \in DEFINITION_TYPES]_vars

C20_Witness ==
    /\ pc = "passes"
    /\ Ran("attach")
    /\ \E e \in Ents : e.defines # <<>>
    /\ \E c \in Calls : entity_index(entities, Get(c, "parent_id")) # 0

----------------------------------------------------------------------------
(* The ingestion job: ingest_repo and its background worker *)

MaxJobs == 3

buildVars == <<repo, walked, entities, files, symbol_table, builds, prev>>

\* StatusManager: the status an ingestion row carries
create_request == "pending"
StatusManager_mark_running(request) == [request EXCEPT !.status = "running"]
StatusManager_mark_failed(request, error) ==
    [request EXCEPT !.status = "failed", !.error = error]

\* a request as ingest_repo leaves it: rejected with HTTP 400, or a pending
\* ingestion row and a started worker thread
IngestionRequest(git_url, local_path) ==
    [git_url |-> git_url, local_path |-> local_path,
     status |-> IF ~git_url /\ ~local_path THEN "rejected" ELSE create_request,
     at |-> IF ~git_url /\ ~local_path THEN "end" ELSE "start",
     error |-> None, exc |-> None, clone_failed |-> FALSE,
     temp_dir |-> "none", session |-> "none"]

InitJob ==
    /\ pc = "jobs"
    /\ IdleBuild
    /\ IdleGraph
    /\ IdleStore
    /\ IdleJobs
    /\ IdlePersist

ingest_repo(git_url, local_path) ==
    /\ pc = "jobs"
    /\ Len(jobs) < MaxJobs
    /\ jobs' = Append(jobs, IngestionRequest(git_url, local_path))
    /\ UNCHANGED <<pc, buildVars, storeVars, db>>

\* session = SessionLocal(); StatusManager(session).mark_running(ingestion_id)
mark_running(j) ==
    /\ jobs[j].at = "start"
    /\ jobs' = [jobs EXCEPT ![j] =
                  [StatusManager_mark_running(@) EXCEPT !.session = "open", !.at = "try"]]
    /\ UNCHANGED <<pc, buildVars, storeVars, db>>

\* the clone, or the local path, is there
locate_repo(j) ==
    /\ jobs[j].at = "try"
    /\ jobs' = [jobs EXCEPT ![j] =
                  IF @.git_url THEN [@ EXCEPT !.temp_dir = "held", !.at = "build"]
                  ELSE IF @.local_path THEN [@ EXCEPT !.at = "build"]
                  ELSE [@ EXCEPT !.exc = <<"ValueError">>, !.at = "except"]]
    /\ UNCHANGED <<pc, buildVars, storeVars, db>>

\* git.Repo.clone_from raises after mkdtemp made the directory
clone_raises(j) ==
    /\ jobs[j].at = "try"
    /\ jobs[j].git_url
    /\ jobs' = [jobs EXCEPT ![j].temp_dir = "held", ![j].clone_failed = TRUE,
                            ![j].exc = <<"GitCommandError">>, ![j].at = "except"]
    /\ UNCHANGED <<pc, buildVars, storeVars, db>>

\* RepoGraphBuilder() is called without the repo_root its __init__ requires
build_graph(j) ==
    /\ jobs[j].at = "build"
    /\ jobs' = [jobs EXCEPT ![j].exc = <<"TypeError">>, ![j].at = "except"]
    /\ UNCHANGED <<pc, buildVars, storeVars, db>>

\* except Exception as exc: mark_failed(ingestion_id, error=str(exc))
mark_failed(j) ==
    /\ jobs[j].at = "except"
    /\ jobs' = [jobs EXCEPT ![j] =
                  [StatusManager_mark_failed(@, @.exc) EXCEPT !.at = "finally"]]
    /\ UNCHANGED <<pc, buildVars, storeVars, db>>

\* finally: if temp_dir: shutil.rmtree(temp_dir); session.close()
release(j) ==
    /\ jobs[j].at = "finally"
    /\ jobs' = [jobs EXCEPT ![j].temp_dir = IF @ = "held" THEN "removed" ELSE @,
                            ![j].session = "closed", ![j].at = "end"]
    /\ UNCHANGED <<pc, buildVars, storeVars, db>>

NextJob ==
    \/ \E git_url \in BOOLEAN, local_path \in BOOLEAN : ingest_repo(git_url, local_path)
    \/ \E j \in 1..Len(jobs) : mark_running(j)
    \/ \E j \in 1..Len(jobs) : locate_repo(j)
    \/ \E j \in 1..Len(jobs) : clone_raises(j)
    \/ \E j \in 1..Len(jobs) : build_graph(j)
    \/ \E j \in 1..Len(jobs) : mark_failed(j)
    \/ \E j \in 1..Len(jobs) : release(j)

SpecJob == InitJob /\ [][NextJob]_vars

\* C13: an accepted job whose worker has ended holds exactly one terminal
\* status: failed with the error text when a step met a fault, completed
\* when the repository was obtained and nothing failed; its temporary
\* directory and its session are released either way.
C13_JobLifecycle ==
    \A j \in 1..Len(jobs) :
        (jobs[j].status # "rejected" /\ jobs[j].at = "end") =>
            /\ jobs[j].status = IF jobs[j].clone_failed THEN "failed" ELSE "completed"
            /\ jobs[j].status = "failed" => jobs[j].error # None
            /\ jobs[j].temp_dir # "held"
            /\ jobs[j].session = "closed"

----------------------------------------------------------------------------
(* Persistence: document_nodes and document_relationships *)

MaxCalls == 3

\* dict.get(k, default)
GetOr(d, k, default) == IF k \in DOMAIN d THEN d[k] ELSE default

build_canonical_id(relative_path, symbol_path) ==
    IF Falsy(symbol_path) THEN relative_path
    ELSE relative_path \o SEP \o symbol_path

\* query(DocumentNode).filter_by(repo_id, canonical_id).first(): the
\* document_id of the row, 0 for no row
first_node(nodes, repo_id, canonical_id) ==
    LET found == {i \in 1..Len(nodes) :
                     nodes[i].repo_id = repo_id /\ nodes[i].canonical_id = canonical_id}
    IN  IF found = {} THEN 0 ELSE Min(found)

new_node(repo_id, canonical_id, node) ==
    [repo_id |-> repo_id, canonical_id |-> canonical_id,
     title |-> node.title, summary |-> GetOr(node, "summary", ""),
     doc_type |-> node.doc_type, source |-> node.source]

\* every node is inserted, none is looked up
upsert_node_InsertOnly(nodes, repo_id, node) ==
    Append(nodes, new_node(repo_id,
               build_canonical_id(node.relative_path, Get(node, "symbol_path")), node))

upsert_node(nodes, repo_id, node) ==
    LET canonical_id == build_canonical_id(node.relative_path, Get(node, "symbol_path"))
        existing == first_node(nodes, repo_id, canonical_id)
    IN  IF existing # 0
        THEN LET row == nodes[existing]
             IN  [nodes EXCEPT ![existing] =
                     [row EXCEPT !.title = GetOr(node, "title", row.title),
                                 !.summary = GetOr(node, "summary", row.summary),
                                 !.doc_type = GetOr(node, "doc_type", row.doc_type),
                                 !.source = GetOr(node, "source", row.source)]]
        ELSE Append(nodes, new_node(repo_id, canonical_id, node))

RECURSIVE upsert_nodes(_, _, _)
upsert_nodes(nodes, repo_id, batch) ==
    IF batch = <<>> THEN nodes
    ELSE upsert_nodes(upsert_node(nodes, repo_id, Head(batch)), repo_id, Tail(batch))

first_relationship(rels, from_document_id, to_document_id, relation_type) ==
    LET found == {i \in 1..Len(rels) :
                     /\ rels[i].from_document_id = from_document_id
                     /\ rels[i].to_document_id = to_document_id
                     /\ rels[i].relation_type = relation_type}
    IN  IF found = {} THEN 0 ELSE Min(found)

from_canonical(rel) ==
    build_canonical_id(rel.from_relative_path, Get(rel, "from_symbol_path"))

to_canonical(rel) ==
    build_canonical_id(rel.to_relative_path, Get(rel, "to_symbol_path"))

new_rel(from_node, to_node, rel) ==
    [from_document_id |-> from_node, to_document_id |-> to_node,
     relation_type |-> rel.relation_type,
     relationship_metadata |-> GetOr(rel, "relationship_metadata", "{}")]

\* a relationship is stored whether or not its endpoints were found
upsert_relationship_NoEndpointCheck(nodes, rels, repo_id, rel) ==
    LET from_node == first_node(nodes, repo_id, from_canonical(rel))
        to_node == first_node(nodes, repo_id, to_canonical(rel))
        existing == first_relationship(rels, from_node, to_node, rel.relation_type)
    IN  IF existing # 0
        THEN [rels EXCEPT ![existing].relationship_metadata =
                 GetOr(rel, "relationship_metadata", @)]
        ELSE Append(rels, new_rel(from_node, to_node, rel))

upsert_relationship(nodes, rels, repo_id, rel) ==
    LET from_node == first_node(nodes, repo_id, from_canonical(rel))
        to_node == first_node(nodes, repo_id, to_canonical(rel))
        existing == first_relationship(rels, from_node, to_node, rel.relation_type)
    IN  IF from_node = 0 \/ to_node = 0 THEN rels
        ELSE IF existing # 0
        THEN [rels EXCEPT ![existing].relationship_metadata =
                 GetOr(rel, "relationship_metadata", @)]
        ELSE Append(rels, new_rel(from_node, to_node, rel))

RECURSIVE upsert_relationships(_, _, _, _)
upsert_relationships(nodes, rels, repo_id, batch) ==
    IF batch = <<>> THEN rels
    ELSE upsert_relationships(nodes, upsert_relationship(nodes, rels, repo_id, Head(batch)),
                              repo_id, Tail(batch))

PathB == PathList[2]

RepoIds == {"r1", "r2"}

NodeA == [relative_path |-> PathA, title |-> "a", summary |-> "module a",
          doc_type |-> "module", source |-> "a.py"]
NodeF == [relative_path |-> PathA, symbol_path |-> <<"f">>, title |-> "f",
          summary |-> "function f", doc_type |-> "function", source |-> "a.py"]
NodeF2 == [relative_path |-> PathA, symbol_path |-> <<"f">>, title |-> "f2",
           doc_type |-> "method", source |-> "a2.py"]
NodeG == [relative_path |-> PathB, symbol_path |-> <<"g">>, title |-> "g",
          doc_type |-> "function", source |-> "b.py"]

NodeBatches ==
    << <<NodeA, NodeF>>, <<NodeF2>>, <<NodeF, NodeF2>>, <<NodeG>>, <<>> >>

RelDefines == [from_relative_path |-> PathA, to_relative_path |-> PathA,
               to_symbol_path |-> <<"f">>, relation_type |-> "DEFINES"]
RelCalls(metadata) ==
    [from_relative_path |-> PathA, from_symbol_path |-> <<"f">>,
     to_relative_path |-> PathB, to_symbol_path |-> <<"g">>,
     relation_type |-> "CALLS", relationship_metadata |-> metadata]
RelCallsBare == [from_relative_path |-> PathA, to_relative_path |-> PathA,
                 to_symbol_path |-> <<"f">>, relation_type |-> "CALLS"]

RelBatches ==
    << <<RelDefines>>, <<RelCalls("m1"), RelDefines>>, <<RelCalls("m2")>>,
       <<RelDefines, RelDefines>>, <<RelCallsBare>> >>

InitPersist ==
    /\ pc = "persist"
    /\ IdleBuild
    /\ IdleGraph
    /\ IdleStore
    /\ IdleJobs
    /\ IdlePersist

UpsertNodes(repo_id, b) ==
    /\ pc = "persist"
    /\ db.calls < MaxCalls
    /\ db' = [nodes |-> upsert_nodes(db.nodes, repo_id, NodeBatches[b]),
              rels |-> db.rels,
              calls |-> db.calls + 1,
              last |-> [op |-> "upsert_nodes", repo_id |-> repo_id,
                        batch |-> NodeBatches[b]]]
    /\ UNCHANGED <<pc, buildVars, storeVars, jobs>>

UpsertRelationships(repo_id, b) ==
    /\ pc = "persist"
    /\ db.calls < MaxCalls
    /\ db' = [nodes |-> db.nodes,
              rels |-> upsert_relationships(db.nodes, db.rels, repo_id, RelBatches[b]),
              calls |-> db.calls + 1,
              last |-> [op |-> "upsert_relationships", repo_id |-> repo_id,
                        batch |-> RelBatches[b]]]
    /\ UNCHANGED <<pc, buildVars, storeVars, jobs>>

NextPersist ==
    \/ \E repo_id \in RepoIds, b \in 1..Len(NodeBatches) : UpsertNodes(repo_id, b)
    \/ \E repo_id \in RepoIds, b \in 1..Len(RelBatches) : UpsertRelationships(repo_id, b)

SpecPersist == InitPersist /\ [][NextPersist]_vars

NodeKey(row) == <<row.repo_id, row.canonical_id>>

RelKey(row) == <<row.from_document_id, row.to_document_id, row.relation_type>>

Called(op) == db'.calls = db.calls + 1 /\ db'.last.op = op

\* C14: upsert_nodes keeps one node per (repo_id, canonical_id): a key the
\* store already holds is updated in place with the title, summary, doc_type
\* and source of the batch, a new key is inserted once, no other row changes,
\* and upserting the same batch again changes nothing.
C14_NodeUpsertKeyed ==
    [][Called("upsert_nodes") =>
        LET repo_id == db'.last.repo_id
            batch == db'.last.batch
            key(k) == <<repo_id, build_canonical_id(batch[k].relative_path,
                                                   Get(batch[k], "symbol_path"))>>
            keys == {key(k) : k \in 1..Len(batch)}
            old == {NodeKey(db.nodes[i]) : i \in 1..Len(db.nodes)}
        IN  /\ \A i, j \in 1..Len(db'.nodes) :
                   NodeKey(db'.nodes[i]) = NodeKey(db'.nodes[j]) => i = j
            /\ Len(db'.nodes) = Len(db.nodes) + Cardinality(keys \ old)
            /\ \A i \in 1..Len(db.nodes) :
                   /\ NodeKey(db'.nodes[i]) = NodeKey(db.nodes[i])
                   /\ NodeKey(db.nodes[i]) \notin keys => db'.nodes[i] = db.nodes[i]
            /\ \A k \in 1..Len(batch) :
                   (\A m \in (k + 1)..Len(batch) : key(m) # key(k)) =>
                       \E i \in 1..Len(db'.nodes) :
                           /\ NodeKey(db'.nodes[i]) = key(k)
                           /\ db'.nodes[i].title = batch[k].title
                           /\ db'.nodes[i].doc_type = batch[k].doc_type
                           /\ db'.nodes[i].source = batch[k].source
                           /\ "summary" \in DOMAIN batch[k] =>
                                  db'.nodes[i].summary = batch[k].summary
            /\ upsert_nodes(db'.nodes, repo_id, batch) = db'.nodes
            /\ db'.rels = db.rels]_vars

C14_Witness ==
    /\ db.last.op = "upsert_nodes"
    /\ db.last.batch = <<NodeF2>>
    /\ db.nodes = <<new_node(db.last.repo_id, PathA, NodeA),
                    [new_node(db.last.repo_id, PathA \o SEP \o <<"f">>, NodeF2)
                        EXCEPT !.summary = NodeF.summary]>>

\* C18: upsert_relationships stores nothing for a relationship whose from or
\* to node is not in the store and still stores the rest of the batch; every
\* stored relationship joins two stored nodes, and there is one record per
\* (from node, to node, relation_type).
C18_DanglingSkipped ==
    [][Called("upsert_relationships") =>
        LET repo_id == db'.last.repo_id
            batch == db'.last.batch
            from_node(k) == first_node(db.nodes, repo_id, from_canonical(batch[k]))
            to_node(k) == first_node(db.nodes, repo_id, to_canonical(batch[k]))
            kept == {k \in 1..Len(batch) : from_node(k) # 0 /\ to_node(k) # 0}
            keys == {<<from_node(k), to_node(k), batch[k].relation_type>> : k \in kept}
            old == {RelKey(db.rels[i]) : i \in 1..Len(db.rels)}
        IN  /\ db'.nodes = db.nodes
            /\ Len(db'.rels) = Len(db.rels) + Cardinality(keys \ old)
            /\ \A i \in 1..Len(db.rels) :
                   /\ RelKey(db'.rels[i]) = RelKey(db.rels[i])
                   /\ RelKey(db.rels[i]) \notin keys => db'.rels[i] = db.rels[i]
            /\ keys \subseteq {RelKey(db'.rels[i]) : i \in 1..Len(db'.rels)}
            /\ \A i \in 1..Len(db'.rels) :
                   /\ db'.rels[i].from_document_id \in 1..Len(db'.nodes)
                   /\ db'.rels[i].to_document_id \in 1..Len(db'.nodes)
            /\ \A i, j \in 1..Len(db'.rels) :
                   RelKey(db'.rels[i]) = RelKey(db'.rels[j]) => i = j]_vars

C18_Witness ==
    /\ db.last.op = "upsert_relationships"
    /\ db.last.batch = <<RelCalls("m1"), RelDefines>>
    /\ first_node(db.nodes, db.last.repo_id, to_canonical(RelCalls("m1"))) = 0
    /\ db.calls = 2
    /\ db.rels = <<new_rel(1, 2, RelDefines)>>

----------------------------------------------------------------------------
(* Frame of a build *)

Ids(ents) == {ents[i].id : i \in 1..Len(ents)}

\* C21: within one build no entity id leaves the graph; the symbol-table,
\* defines and resolution passes neither add nor remove an id; and the
\* resolver writes resolution and confidence on CALL artifacts only.
C21_AppendOnly ==
    [][/\ builds' = builds => Ids(entities) \subseteq Ids(entities')
       /\ (builds' = builds /\ pc' \in {"defines", "resolve", "done"}) =>
              Ids(entities') = Ids(entities)
       /\ pc = "resolve" =>
              \A i \in 1..Len(entities) :
                  entities[i].artifact_type # "CALL" => entities'[i] = entities[i]
       /\ \A i \in 1..Len(entities') :
              entities'[i].artifact_type # "CALL" =>
                  DOMAIN entities'[i] \cap {"resolution", "confidence"} = {}]_vars

C21_Witness ==
    /\ Done
    /\ Len(walked) >= 2
    /\ \E c \in Calls : {"resolution", "confidence"} \subseteq DOMAIN c
    /\ \E e \in Ents : e.artifact_type \in DEFINITION_TYPES
    /\ \E e \in Ents : e.artifact_type = "MODULE"

----------------------------------------------------------------------------
(* Lexical scope of a scoped match *)

\* id names the scope s itself or something declared inside s: s, then the
\* separator that follows a scope of its kind, then a path within s
InScope(id, s) ==
    \/ id = s
    \/ StartsWith(id, s \o (IF "#" \in Range(s) THEN <<".">> ELSE SEP))

\* the scope at which the scoped search of a call finds its target
RECURSIVE HitScope(_, _, _)
HitScope(name, current_parent, seen) ==
    IF Falsy(current_parent) \/ current_parent \in seen THEN None
    ELSE IF scope_match(entities, current_parent, name) # {} THEN current_parent
    ELSE LET p == entity_index(entities, current_parent)
         IN  HitScope(name, IF p # 0 THEN Get(entities[p], "parent_id") ELSE None,
                      seen \cup {current_parent})

\* C22: a scoped (1.0) resolution names the scope it was found at or an
\* artifact declared inside that scope, never an artifact whose id merely
\* begins with the same characters.
C22_ScopedMatchInsideScope ==
    (pc = "passes" /\ Ran("resolve")) =>
        \A c \in Calls :
            c.confidence = CONF_SCOPED =>
                InScope(c.resolution,
                        HitScope(Get(c, "name"), Get(c, "parent_id"), {}))

----------------------------------------------------------------------------
(* Consistency of the graph store *)

\* the ids of the add_entity calls so far, each at its first insertion
RECURSIVE FirstInsertions(_, _)
FirstInsertions(k, acc) ==
    IF k > Len(log) THEN acc
    ELSE FirstInsertions(k + 1,
             IF log[k].artifact.id \in Range(acc) THEN acc
             ELSE Append(acc, log[k].artifact.id))

\* C23: after any sequence of add_entity calls every id of a files list is
\* an entity, every entity is in some files list, and all_entities() holds
\* one artifact per distinct id, each under its own id, in the order of the
\* first insertion of the ids.
C23_StoreConsistent ==
    /\ \A p \in DOMAIN files : Range(files[p]) \subseteq Ids(entities)
    /\ \A id \in Ids(entities) : \E p \in DOMAIN files : id \in Range(files[p])
    /\ [k \in 1..Len(all_entities(Graph)) |-> all_entities(Graph)[k].id]
           = FirstInsertions(1, <<>>)
    /\ \A id \in Ids(entities) : entities[entity_index(entities, id)].id = id

C23_Witness ==
    /\ pc = "store"
    /\ Len(log) = 3
    /\ log[1].artifact.id = log[3].artifact.id
    /\ log[1].artifact # log[3].artifact
    /\ log[2].artifact.id # log[1].artifact.id
    /\ entities = <<Stored(3), Stored(2)>>


====
